---- MODULE Spec2Model ----
(***************************************************************************)
(* A model of rrinlog-server (src/rrinlog-server/src/main.rs): the /query  *)
(* handler, its three resolvers and fill_datapoints.                       *)
(*                                                                         *)
(* Instants (chrono DateTime<Utc>) are signed epoch milliseconds.  u64     *)
(* values that come out of an `as u64` cast are kept as four 16-bit limbs  *)
(* (most significant first), so that the cast of a negative i64 is the     *)
(* two's complement the build produces.                                    *)
(***************************************************************************)
EXTENDS Integers, Sequences, FiniteSets, TLC

----------------------------------------------------------------------------
(* Bounds of the model. *)

\* instants run from -PreEpochTicks to MaxTick half seconds around the epoch
MaxTick == 5
PreEpochTicks == 3
\* fill_datapoints is tried with intervals 1..MaxInterval seconds
MaxInterval == 2
\* sparse points handed to one fill_datapoints call
MaxPoints == 2
\* rows one storage query returns
MaxRows == 2
\* requests the server handles in one behaviour
MaxRequests == 2
\* rows handed to one direct get_sites call
MaxSiteRows == 3

Instants == { 500 * k : k \in (0 - PreEpochTicks)..MaxTick }
Values == {1, 2}

SeqsUpTo(S, n) == UNION { [1..k -> S] : k \in 0..n }

----------------------------------------------------------------------------
(* Arithmetic of the build. *)

Abs(x) == IF x < 0 THEN 0 - x ELSE x

\* i64 `/` (and num_rational's Ratio::to_integer): rounds toward zero
TruncDiv(a, b) ==
    LET q == Abs(a) \div Abs(b)
    IN  IF (a < 0) # (b < 0) THEN 0 - q ELSE q

Limb == 2 ^ 16

\* `x as u64` for an i64 x, |x| < 2^31: two's complement in four limbs
AsU64(x) ==
    IF x >= 0
    THEN <<0, 0, x \div Limb, x % Limb>>
    ELSE LET y == (0 - x) - 1
         IN  <<Limb - 1, Limb - 1, (Limb - 1) - (y \div Limb), (Limb - 1) - (y % Limb)>>

\* `u as i64` for a u64 u: the inverse bit cast
AsI64(u) ==
    IF u[1] < Limb \div 2
    THEN ((u[1] * Limb + u[2]) * Limb + u[3]) * Limb + u[4]
    ELSE 0 - ((((Limb - 1 - u[1]) * Limb + (Limb - 1 - u[2])) * Limb
                + (Limb - 1 - u[3])) * Limb + (Limb - 1 - u[4])) - 1

\* DateTime::timestamp(): whole seconds since the epoch, rounded down
timestamp(dt) == dt \div 1000

\* Time::new::<second>(v) with i64 storage: the base unit is the second
NewSecond(v) == v

\* Time::new::<millisecond>(v) with i64 storage: v * (1/1000), to_integer()
NewMillisecond(v) == TruncDiv(v, 1000)

\* Time::get::<millisecond>() with i64 storage
GetMillisecond(t) == t * 1000

----------------------------------------------------------------------------
(* fill_datapoints *)

Panic == [ok |-> FALSE, datapoints |-> <<>>]
Returned(v) == [ok |-> TRUE, datapoints |-> v]

\* let index = (((ptime - start) / interval).value) as usize
PointIndex(start, interval, point) ==
    TruncDiv(NewMillisecond(AsI64(point[2])) - start, interval)

\* let elements: i64 = i64::from((end - start) / interval) + 1
Elements(range, interval) ==
    TruncDiv(NewSecond(timestamp(range.to)) - NewSecond(timestamp(range.from)), interval) + 1

\* the time column: (i * interval.get::<millisecond>() + start.get::<millisecond>()) as u64
TimeAt(start, interval, i) ==
    AsU64(i * GetMillisecond(interval) + GetMillisecond(start))

\* the loop `for point in points { data[index] = point[0]; }` from point k on;
\* data is indexed 1..elements here, and an index outside the vector panics
RECURSIVE WritePoints(_, _, _, _, _)
WritePoints(data, start, interval, points, k) ==
    IF k > Len(points) THEN [ok |-> TRUE, data |-> data]
    ELSE LET index == PointIndex(start, interval, points[k])
         IN  IF index < 0 \/ index >= Len(data)
             THEN [ok |-> FALSE, data |-> data]
             ELSE WritePoints([data EXCEPT ![index + 1] = points[k][1]],
                              start, interval, points, k + 1)

fill_datapoints(range, interval, points) ==
    LET start == NewSecond(timestamp(range.from))
        elements == Elements(range, interval)
    IN  IF elements < 0 THEN Panic
        ELSE LET zeroes == [i \in 1..elements |-> 0]
                 written == WritePoints(zeroes, start, interval, points, 1)
             IN  IF ~written.ok THEN Panic
                 ELSE Returned([i \in 1..elements |->
                                 <<written.data[i], TimeAt(start, interval, i - 1)>>])

----------------------------------------------------------------------------
(* The storage collaborator (mod dao) and the request's inputs. *)

HostRank == [h \in {"a.example", "b.example"} |-> IF h = "a.example" THEN 1 ELSE 2]
Hosts == DOMAIN HostRank
Referers == {"/post1", "/post2"}
KnownTargets == {"blog_hits", "sites", "outbound_data"}
TargetNames == KnownTargets \cup {"nonsense"}
\* the target lists requests are tried with: none, one, and two targets
TargetLists ==
    {<<>>} \cup { <<t>> : t \in TargetNames }
           \cup { <<t, u>> : t \in TargetNames, u \in {"sites", "nonsense"} }
IntervalMsInputs == {0 - 1500, 0, 50, 1999, 2000}

\* the counts storage rows are tried with
RowValues == {1}

\* timestamps a storage row may carry: second resolution, inside the range
RowInstants(range) ==
    { t \in Instants : t % 1000 = 0 /\ range.from <= t /\ t <= range.to }

\* dao::sites(conn, &range, interval): rows {host, ep, views}
SitesRows(range) ==
    SeqsUpTo([host : Hosts, ep : RowInstants(range), views : RowValues], MaxRows)

\* dao::outbound_data(conn, &range, &ip, interval): rows {ep, bytes}
OutboundRows(range) ==
    SeqsUpTo([ep : RowInstants(range), bytes : RowValues], MaxRows)

\* dao::blog_posts(conn, &range, &ip): rows {referer, views}
BlogRows ==
    SeqsUpTo([referer : Referers, views : RowValues], MaxRows)

Ranges == [from : Instants, to : Instants]

\* the ranges requests are tried with
QueryInstants == {0 - 1000, 0, 500, 2000}
Queries ==
    [range : [from : QueryInstants, to : QueryInstants], interval_ms : IntervalMsInputs,
     targets : TargetLists]

----------------------------------------------------------------------------
(* get_sites, get_outbound, get_blog_posts: what each returns for the rows   *)
(* storage gave it.  A result is [tag, err, body].                           *)

Ok(body) == [tag |-> "Ok", err |-> "", body |-> body]
Err(e) == [tag |-> "Err", err |-> e, body |-> <<>>]
Panicked == [tag |-> "Panic", err |-> "", body |-> <<>>]

Series(target, datapoints) ==
    [kind |-> "Series", target |-> target, datapoints |-> datapoints, rows |-> <<>>]
\* create_blog_table: the two fixed columns, and the rows
Table(rows) ==
    [kind |-> "Table", target |-> "article,count", datapoints |-> <<>>, rows |-> rows]

\* the key of rows.sort_unstable_by_key(|x| (x.host.clone(), x.ep))
KeyLeq(a, b) ==
    \/ HostRank[a.host] < HostRank[b.host]
    \/ a.host = b.host /\ a.ep <= b.ep

Orderings(n) == { f \in [1..n -> 1..n] : \A i, j \in 1..n : i # j => f[i] # f[j] }

\* the rows left as storage returned them
Unsorted(rows) == {rows}

\* every order an unstable sort by that key may leave the rows in
SortedByKey(rows) ==
    { [i \in 1..Len(rows) |-> rows[f[i]]] : f \in
        { g \in Orderings(Len(rows)) :
            \A i \in 1..Len(rows) - 1 : KeyLeq(rows[g[i]], rows[g[i + 1]]) } }

\* itertools group_by(|x| x.host.clone()): maximal runs of consecutive rows
\* with one host, in order
RECURSIVE GroupByHost(_)
GroupByHost(rows) ==
    IF rows = <<>> THEN <<>>
    ELSE LET x == Head(rows)
             rest == GroupByHost(Tail(rows))
             alone == [host |-> x.host, points |-> <<x>>]
         IN  IF rest # <<>> /\ rest[1].host = x.host
             THEN LET joined == [host |-> x.host, points |-> <<x>> \o rest[1].points]
                  IN  <<joined>> \o Tail(rest)
             ELSE <<alone>> \o rest

\* points.map(|x| [x.views as u64, x.ep as u64])
SitesPoints(points) == [i \in 1..Len(points) |-> <<points[i].views, AsU64(points[i].ep)>>]

\* the loop of get_sites with `v` created inside it: only the last host is kept
SitesSeriesLastOnly(sorted, range, interval) ==
    LET groups == GroupByHost(sorted)
        last == groups[Len(groups)]
        filled == fill_datapoints(range, interval, SitesPoints(last.points))
    IN  IF groups = <<>> THEN Ok(<<>>)
        ELSE IF ~filled.ok THEN Panicked
        ELSE Ok(<<Series(last.host, filled.datapoints)>>)

\* the loop of get_sites over the groups of the sorted rows
SitesSeries(sorted, range, interval) ==
    LET groups == GroupByHost(sorted)
        filled == [g \in 1..Len(groups) |->
                     fill_datapoints(range, interval, SitesPoints(groups[g].points))]
    IN  IF \E g \in 1..Len(groups) : ~filled[g].ok THEN Panicked
        ELSE Ok([g \in 1..Len(groups) |-> Series(groups[g].host, filled[g].datapoints)])

\* the results get_sites may return for the rows dao::sites gave
get_sites(rows, range, interval) ==
    { SitesSeries(sorted, range, interval) : sorted \in SortedByKey(rows) }

\* rows.iter().map(|x| [x.bytes as u64, x.ep as u64])
OutboundPoints(rows) == [i \in 1..Len(rows) |-> <<rows[i].bytes, AsU64(rows[i].ep)>>]

get_outbound(rows, range, interval) ==
    LET filled == fill_datapoints(range, interval, OutboundPoints(rows))
    IN  IF ~filled.ok THEN Panicked
        ELSE Ok(<<Series("outbound_data", filled.datapoints)>>)

get_blog_posts(rows) ==
    Ok(<<Table([i \in 1..Len(rows) |-> <<rows[i].referer, rows[i].views>>])>>)

\* the interval without the clamp to one second
IntervalUnclamped(interval_ms) == TruncDiv(interval_ms, 1000)

\* std::cmp::max(query.interval_ms / 1000, 1)
Interval(interval_ms) ==
    LET q == TruncDiv(interval_ms, 1000) IN IF q > 1 THEN q ELSE 1

----------------------------------------------------------------------------
(* The /query handler as a state machine, one request at a time.            *)

VARIABLES
    pc,          \* where the handler is: idle, establish, first, dates,
                 \* interval, dispatch, done
    query,       \* the request being handled
    served,      \* requests received so far
    conn,        \* id of the connection this request holds; 0 for none
    openConns,   \* ids of the connections that are open
    established, \* connections established so far
    connOwner,   \* which request each connection was established for
    interval,    \* the normalised interval, seconds; 0 before it is computed
    calls,       \* resolvers, storage queries and fill_datapoints calls, in order
    steps,       \* the intervals given to those calls
    rows,        \* what the storage query of this request returned
    result,      \* what the handler returned
    call,        \* a direct call of fill_datapoints or get_sites: its arguments
    hpc,         \* that call: off, ready, returned
    ret          \* that call: what it returned

vars == <<pc, query, served, conn, openConns, established, connOwner, interval,
          calls, steps, rows, result, call, hpc, ret>>
handler == <<pc, query, served, conn, openConns, established, connOwner, interval,
             calls, steps, rows, result>>
direct == <<call, hpc, ret>>

NoQuery == [range |-> [from |-> 0, to |-> 0], interval_ms |-> 0, targets |-> <<>>]
NoResult == [tag |-> "", err |-> "", body |-> <<>>]
NoCall == [range |-> [from |-> 0, to |-> 0], interval |-> 1, points |-> <<>>, rows |-> <<>>]

InitHandler ==
    /\ pc = "idle" /\ query = NoQuery /\ served = 0
    /\ conn = 0 /\ openConns = {} /\ established = 0 /\ connOwner = <<>>
    /\ interval = 0 /\ calls = <<>> /\ steps = {} /\ rows = <<>>
    /\ result = NoResult

Init == InitHandler /\ call = NoCall /\ hpc = "off" /\ ret = <<>>

\* the request reaches query(): Json<Query> has been deserialised
Receive(q) ==
    /\ pc = "idle"
    /\ served < MaxRequests
    /\ pc' = "establish" /\ query' = q /\ served' = served + 1
    /\ UNCHANGED <<conn, openConns, established, connOwner, interval, calls, steps,
                   rows, result, direct>>

\* the response has been sent: the worker waits for its next request
Respond ==
    /\ pc = "done"
    /\ pc' = "idle" /\ query' = NoQuery
    /\ conn' = 0 /\ interval' = 0 /\ calls' = <<>> /\ steps' = {} /\ rows' = <<>>
    /\ result' = NoResult
    /\ UNCHANGED <<served, openConns, established, connOwner, direct>>

\* query() returning without its connection being closed
ReturnLeaking(res) ==
    /\ pc' = "done"
    /\ result' = res
    /\ UNCHANGED <<query, served, conn, openConns, established, connOwner, direct>>

\* query() returns res: its local `conn` is dropped with the stack frame
Return(res) ==
    /\ pc' = "done"
    /\ result' = res
    /\ openConns' = openConns \ {conn}
    /\ UNCHANGED <<query, served, conn, established, connOwner, direct>>

\* let conn = SqliteConnection::establish(&opt.db).map_err(DataError::DbConn)?
Establish(ok) ==
    /\ pc = "establish"
    /\ IF ok
       THEN /\ established' = established + 1
            /\ conn' = established + 1
            /\ openConns' = openConns \cup {established + 1}
            /\ connOwner' = Append(connOwner, served)
            /\ pc' = "first"
            /\ UNCHANGED <<query, served, interval, calls, steps, rows, result, direct>>
       ELSE /\ Return(Err("DbConn"))
            /\ UNCHANGED <<interval, calls, steps, rows>>

\* let first = query.targets.first().ok_or_else(|| DataError::OneTarget(len))?
FirstTarget ==
    /\ pc = "first"
    /\ IF query.targets = <<>>
       THEN Return(Err("OneTarget"))
       ELSE pc' = "dates" /\ UNCHANGED <<query, served, conn, openConns, established,
                                         connOwner, result, direct>>
    /\ UNCHANGED <<interval, calls, steps, rows>>

\* query() without its check of the range
CheckDatesSkipped ==
    /\ pc = "dates"
    /\ pc' = "interval"
    /\ UNCHANGED <<query, served, conn, openConns, established, connOwner, result,
                   direct, interval, calls, steps, rows>>

\* if query.range.from > query.range.to { return Err(DataError::DatesSwapped) }
CheckDates ==
    /\ pc = "dates"
    /\ IF query.range.from > query.range.to
       THEN Return(Err("DatesSwapped"))
       ELSE pc' = "interval" /\ UNCHANGED <<query, served, conn, openConns, established,
                                            connOwner, result, direct>>
    /\ UNCHANGED <<interval, calls, steps, rows>>

\* let interval: Time = Time::new::<second>(max(query.interval_ms / 1000, 1))
Normalize ==
    /\ pc = "interval"
    /\ interval' = NewSecond(Interval(query.interval_ms))
    /\ pc' = "dispatch"
    /\ UNCHANGED <<query, served, conn, openConns, established, connOwner,
                   calls, steps, rows, result, direct>>

FillCalls(n) == [i \in 1..n |-> "fill_datapoints"]

\* "blog_hits" => get_blog_posts(&conn, &query, &opt)
BlogHits ==
    /\ pc = "dispatch" /\ query.targets[1] = "blog_hits"
    /\ calls' = <<"get_blog_posts", "dao::blog_posts">>
    /\ \/ rows' = <<>> /\ Return(Err("DbQuery"))
       \/ \E got \in BlogRows : rows' = got /\ Return(get_blog_posts(got))
    /\ steps' = steps
    /\ UNCHANGED interval

\* "sites" => get_sites(&conn, &query, interval)
Sites ==
    /\ pc = "dispatch" /\ query.targets[1] = "sites"
    /\ \/ /\ calls' = <<"get_sites", "dao::sites">>
          /\ rows' = <<>>
          /\ Return(Err("DbQuery"))
       \/ \E got \in SitesRows(query.range) : \E sorted \in SortedByKey(got) :
            /\ calls' = <<"get_sites", "dao::sites">> \o FillCalls(Len(GroupByHost(sorted)))
            /\ rows' = got
            /\ Return(SitesSeries(sorted, query.range, interval))
    /\ steps' = steps \cup {interval}
    /\ UNCHANGED interval

\* "outbound_data" => get_outbound(&conn, &query, &opt, interval)
Outbound ==
    /\ pc = "dispatch" /\ query.targets[1] = "outbound_data"
    /\ \/ /\ calls' = <<"get_outbound", "dao::outbound_data">>
          /\ rows' = <<>>
          /\ Return(Err("DbQuery"))
       \/ \E got \in OutboundRows(query.range) :
            /\ calls' = <<"get_outbound", "dao::outbound_data", "fill_datapoints">>
            /\ rows' = got
            /\ Return(get_outbound(got, query.range, interval))
    /\ steps' = steps \cup {interval}
    /\ UNCHANGED interval

\* a default arm that hands every other name to get_blog_posts
UnrecognizedDefaultsToBlog ==
    /\ pc = "dispatch" /\ query.targets[1] \notin KnownTargets
    /\ calls' = <<"get_blog_posts", "dao::blog_posts">>
    /\ \E got \in BlogRows : rows' = got /\ Return(get_blog_posts(got))
    /\ steps' = steps
    /\ UNCHANGED interval

\* x => Err(DataError::UnrecognizedTarget(String::from(x)).into())
Unrecognized ==
    /\ pc = "dispatch" /\ query.targets[1] \notin KnownTargets
    /\ Return(Err("UnrecognizedTarget"))
    /\ UNCHANGED <<interval, calls, steps, rows>>

Next ==
    \/ \E q \in Queries : Receive(q)
    \/ \E ok \in BOOLEAN : Establish(ok)
    \/ FirstTarget
    \/ CheckDates
    \/ Normalize
    \/ BlogHits
    \/ Sites
    \/ Outbound
    \/ Unrecognized
    \/ Respond

Spec == Init /\ [][Next]_vars

----------------------------------------------------------------------------
(* fill_datapoints called directly, as the unit tests call it: any range,   *)
(* any interval of 1..MaxInterval seconds, any points.                       *)

U64Instants == { AsU64(t) : t \in Instants }

FillArgs ==
    [range : Ranges, interval : 1..MaxInterval,
     points : SeqsUpTo(Values \X U64Instants, MaxPoints), rows : {<<>>}]

InitFill == InitHandler /\ call \in FillArgs /\ hpc = "ready" /\ ret = <<>>

CallFill ==
    /\ hpc = "ready"
    /\ ret' = fill_datapoints(call.range, NewSecond(call.interval), call.points)
    /\ hpc' = "returned"
    /\ UNCHANGED <<call, handler>>

NextFill == CallFill

SpecFill == InitFill /\ [][NextFill]_vars

(* get_sites called directly on the rows of one storage answer, in any order *)

SitesArgs ==
    UNION { [range : {r}, interval : 1..MaxInterval, points : {<<>>},
             rows : SeqsUpTo([host : Hosts, ep : RowInstants(r), views : RowValues],
                             MaxSiteRows)] :
            r \in { x \in [from : QueryInstants, to : QueryInstants] : x.from <= x.to } }

InitSites == InitHandler /\ call \in SitesArgs /\ hpc = "ready" /\ ret = <<>>

CallSites ==
    /\ hpc = "ready"
    /\ \E res \in get_sites(call.rows, call.range, NewSecond(call.interval)) : ret' = res
    /\ hpc' = "returned"
    /\ UNCHANGED <<call, handler>>

NextSites == CallSites

SpecSites == InitSites /\ [][NextSites]_vars

----------------------------------------------------------------------------
(* The properties. *)

MaxOf(a, b) == IF a > b THEN a ELSE b
Greatest(S) == CHOOSE x \in S : \A y \in S : y <= x
RangeOf(f) == { f[i] : i \in DOMAIN f }

\* the range's ends in whole seconds, rounded down, and the number of buckets
FromSeconds(range) == range.from \div 1000
ToSeconds(range) == range.to \div 1000
Buckets(range, s) == ((ToSeconds(range) - FromSeconds(range)) \div s) + 1

\* the u64 that holds the natural number n
Natural64(n) == <<0, 0, n \div Limb, n % Limb>>

\* a point of a direct fill_datapoints call lies within its range
PointsWithinRange ==
    \A k \in 1..Len(call.points) :
        /\ call.range.from <= AsI64(call.points[k][2])
        /\ AsI64(call.points[k][2]) <= call.range.to

FillReturnedInRange ==
    /\ hpc = "returned"
    /\ call.range.from <= call.range.to
    /\ PointsWithinRange

\* the bucket the specification gives a point: floor((point_seconds - from_seconds) / s)
BucketOf(point) ==
    ((AsI64(point[2]) \div 1000) - FromSeconds(call.range)) \div call.interval

\* C1: for from <= to, s >= 1 and points within the range, fill_datapoints returns
\* N = floor((to_seconds - from_seconds) / s) + 1 points and the timestamp of point i
\* is from_seconds*1000 + i*s*1000 milliseconds.
C1_LengthAndTimestamps ==
    (FillReturnedInRange /\ ret.ok) =>
        /\ Len(ret.datapoints) = Buckets(call.range, call.interval)
        /\ \A i \in 1..Len(ret.datapoints) :
             LET ms == FromSeconds(call.range) * 1000 + (i - 1) * call.interval * 1000
             IN  ms >= 0 /\ ret.datapoints[i][2] = Natural64(ms)

\* C2: for from <= to, s >= 1 and points within the range, the value of bucket j is
\* the value of the last point in input order whose index
\* floor((point_seconds - from_seconds) / s) is j, and 0 when there is none.
C2_LastWriteWins ==
    (FillReturnedInRange /\ ret.ok) =>
        \A j \in 1..Len(ret.datapoints) :
            LET K == { k \in 1..Len(call.points) : BucketOf(call.points[k]) = j - 1 }
            IN  ret.datapoints[j][1] = IF K = {} THEN 0 ELSE call.points[Greatest(K)][1]

\* C10: for from <= to, s >= 1 and every point within [from, to], sub-second parts
\* included, the computed index lies in [0, N-1] and fill_datapoints does not panic.
C10_IndexInBounds ==
    FillReturnedInRange =>
        /\ ret.ok
        /\ \A k \in 1..Len(call.points) :
             LET index == PointIndex(NewSecond(timestamp(call.range.from)),
                                     NewSecond(call.interval), call.points[k])
             IN  0 <= index /\ index <= Buckets(call.range, call.interval) - 1

\* C3: the interval query computes is max(floor(intervalMs / 1000), 1) seconds, so
\* it is 1 for an intervalMs of 0 or less, and no resolver, storage query or
\* fill_datapoints call is given an interval below 1.
C3_IntervalAtLeastOne ==
    /\ (pc = "dispatch" \/ calls # <<>>) =>
          /\ interval = MaxOf(query.interval_ms \div 1000, 1)
          /\ interval >= 1
          /\ (query.interval_ms <= 0 => interval = 1)
    /\ \A s \in steps : s >= 1 /\ s = MaxOf(query.interval_ms \div 1000, 1)

C3_Witness ==
    /\ pc = "done" /\ result.tag = "Ok"
    /\ query.interval_ms = 0 - 1500
    /\ "fill_datapoints" \in RangeOf(calls)
    /\ steps = {1}

\* C4, as claimed: a request with from > to fails as DatesSwapped whatever its
\* targets are (stated for the requests whose connection was established).
C4_AlwaysDatesSwapped ==
    (pc = "done" /\ conn # 0 /\ query.range.from > query.range.to) =>
        result = Err("DatesSwapped")

\* C4, amended: a request with from > to never succeeds and no resolver, storage
\* query or fill_datapoints call runs for it; it fails as DatesSwapped when its
\* connection was established and it names a target, as OneTarget when it names
\* none, and as DbConn when the connection could not be established.
C4_SwappedDatesRejected ==
    query.range.from > query.range.to =>
        /\ calls = <<>> /\ steps = {} /\ pc \notin {"interval", "dispatch"}
        /\ pc = "done" =>
             result = Err(IF conn = 0 THEN "DbConn"
                          ELSE IF query.targets = <<>> THEN "OneTarget"
                          ELSE "DatesSwapped")

C4_Witness ==
    /\ pc = "done" /\ query.range.from > query.range.to
    /\ result = Err("DatesSwapped")
    /\ Len(query.targets) = 2 /\ query.targets[1] = "sites"
    /\ query.interval_ms = 0

\* C5, as claimed: a request rejected as UnrecognizedTarget has opened no storage
\* connection.
C5_NoConnectionOpened ==
    (pc = "done" /\ result = Err("UnrecognizedTarget")) => conn = 0

\* C5, amended: a request whose first target is not a known name never succeeds
\* and no resolver or storage query runs for it; with its connection established
\* and from <= to it fails as UnrecognizedTarget, and the connection that was
\* opened for it is closed when it returns.
C5_UnknownTargetRejected ==
    (query.targets # <<>> /\ query.targets[1] \notin KnownTargets) =>
        /\ calls = <<>> /\ rows = <<>>
        /\ pc = "done" =>
             /\ result.tag = "Err"
             /\ (conn # 0 /\ query.range.from <= query.range.to) =>
                   /\ result = Err("UnrecognizedTarget")
                   /\ conn \notin openConns
             /\ result = Err("UnrecognizedTarget") => conn # 0

C5_Witness ==
    /\ pc = "done" /\ result = Err("UnrecognizedTarget")
    /\ query.targets = <<"nonsense">>
    /\ conn # 0 /\ openConns = {}

\* C6: a request is accepted only when it names exactly one target.
C6_OnlyOneTargetAccepted ==
    (pc = "done" /\ result.tag = "Ok") => Len(query.targets) = 1

\* C8: a request that acquires a connection releases that connection before it
\* finishes, on every exit path; no connection outlives its request or serves
\* another one.
C8_ConnectionReleased ==
    /\ pc \in {"idle", "done"} => openConns = {}
    /\ pc \in {"first", "dates", "interval", "dispatch"} => openConns = {conn}
    /\ openConns \subseteq {conn}
    /\ conn # 0 => conn \in DOMAIN connOwner /\ connOwner[conn] = served
    /\ \A i, j \in DOMAIN connOwner : i < j => connOwner[i] < connOwner[j]

C8_Witness ==
    /\ pc = "done" /\ result = Err("DbQuery")
    /\ served = 2 /\ conn = 2 /\ connOwner = <<1, 2>>
    /\ openConns = {}

HostsOf(rs) == { rs[i].host : i \in 1..Len(rs) }

\* C9, as claimed: the response list of a successful request holds exactly one entry.
C9_OneEntry ==
    (pc = "done" /\ result.tag = "Ok") => Len(result.body) = 1

\* C9, amended: a successful blog_hits request returns one entry, the Table of all
\* rows in the order received; a successful outbound_data request returns one
\* entry, the Series "outbound_data"; a successful sites request returns one Series
\* per distinct host of the rows, so none when storage returned no rows.
C9_ResponseEntries ==
    (pc = "done" /\ result.tag = "Ok") =>
        /\ query.targets[1] = "blog_hits" =>
             /\ Len(result.body) = 1 /\ result.body[1].kind = "Table"
             /\ Len(result.body[1].rows) = Len(rows)
             /\ \A i \in 1..Len(rows) :
                  result.body[1].rows[i] = <<rows[i].referer, rows[i].views>>
        /\ query.targets[1] = "outbound_data" =>
             /\ Len(result.body) = 1 /\ result.body[1].kind = "Series"
             /\ result.body[1].target = "outbound_data"
        /\ query.targets[1] = "sites" =>
             /\ Len(result.body) = Cardinality(HostsOf(rows))
             /\ \A i \in 1..Len(result.body) :
                  result.body[i].kind = "Series" /\ result.body[i].target \in HostsOf(rows)

C9_Witness ==
    /\ pc = "done" /\ result.tag = "Ok"
    /\ query.targets[1] = "sites"
    /\ Len(rows) = 2 /\ Len(result.body) = 2

\* C7: get_sites returns one Series per distinct host of the rows, whatever their
\* order, each bucketed over the same range and interval from that host's rows
\* alone, so all Series have the same length and the same timestamps.
C7_OneSeriesPerHost ==
    hpc = "returned" =>
        /\ ret.tag = "Ok"
        /\ Len(ret.body) = Cardinality(HostsOf(call.rows))
        /\ \A i, j \in 1..Len(ret.body) : i # j => ret.body[i].target # ret.body[j].target
        /\ \A i \in 1..Len(ret.body) :
             LET series == ret.body[i]
                 own == { k \in 1..Len(call.rows) : call.rows[k].host = series.target }
             IN  /\ own # {}
                 /\ Len(series.datapoints) = Buckets(call.range, call.interval)
                 /\ \A b \in 1..Len(series.datapoints) :
                      /\ series.datapoints[b][2] = ret.body[1].datapoints[b][2]
                      /\ series.datapoints[b][1] # 0 <=>
                           \E k \in own :
                             ((call.rows[k].ep \div 1000) - FromSeconds(call.range))
                                \div call.interval = b - 1
                      /\ series.datapoints[b][1] # 0 =>
                           \E k \in own : call.rows[k].views = series.datapoints[b][1]

C7_Witness ==
    /\ hpc = "returned" /\ ret.tag = "Ok"
    /\ Len(call.rows) = 3
    /\ call.rows[1].host = "b.example" /\ call.rows[2].host = "a.example"
    /\ call.rows[3].host = "b.example"
    /\ Len(ret.body) = 2

====
